---------------------------- MODULE Spec2Model ----------------------------
(***************************************************************************)
(* The two inference notebooks of the repository, examples/inference_2_1   *)
(* (2 days of forcings in, 1 day of FWI out) and its 4-days-in/10-days-out *)
(* sibling (src/unnamed/part_000), run top to bottom.                      *)
(*                                                                         *)
(* A state is the kernel's namespace (hparams, model, x, y, y_hat, ...),   *)
(* the process's working directory, the four random generators, what has   *)
(* been written to disk and what has been plotted, plus pc: the statement  *)
(* the top-to-bottom run executes next.  Two runs of the same notebook on  *)
(* the same files are carried side by side (Runs): what a run computes     *)
(* from its generators and its model is indexed by the run, what it reads  *)
(* from the files (x, y, the mask) is shared.                              *)
(*                                                                         *)
(* Numbers: an FWI value is an integer count of tenths (9.4 is 94) or NaN. *)
(* A field over the grid is tracked at the cells of Cells: the cells on    *)
(* both sides of every edge of the case-study window.  Every tensor        *)
(* operation of the notebooks is cell-wise or a reduction over a mask, so  *)
(* the other cells of the grid behave like these.                          *)
(***************************************************************************)
EXTENDS Integers, Sequences, FiniteSets

(***************************************************************************)
(* Bounds of the model (the data the notebooks read is external).          *)
(***************************************************************************)
\* Rows and columns of the grid of the netCDF4 files.
GridRows == 481
GridCols == 551
\* How many different contents the data files may have.
MaxDatasets == 2
\* How many different fire-prone-region masks model.data.mask may be.
MaxMasks == 3
\* A generator that was never seeded starts in a state of 0..MaxEntropy.
MaxEntropy == 1
\* The generators' states are taken modulo GenMod.
GenMod == 4099

(***************************************************************************)
(* Program constants.                                                      *)
(***************************************************************************)
SEED == 2334
\* The accuracy threshold 9.4, in tenths.
Threshold == 94
\* The case-study window y[...][355:480, 400:550].
RowLo == 355
RowHi == 480
ColLo == 400
ColHi == 550
\* hparams.boxcox = 0.1182, in ten-thousandths.
BoxCoxLambda == 1182
\* The variables per input day: the loop "for j in range(4)".
NumVars == 4

Notebooks == {"inference_2_1", "inference_4_10"}
Runs == {1, 2}

(***************************************************************************)
(* Values: a float is NaN or a number.                                     *)
(***************************************************************************)
NaN == [nan |-> TRUE, v |-> 0]
Num(n) == [nan |-> FALSE, v |-> n]
IsNaN(a) == a.nan
\* a - b
Sub(a, b) == IF a.nan \/ b.nan THEN NaN ELSE Num(a.v - b.v)
\* a.abs()
Abs(a) == IF a.nan THEN NaN ELSE Num(IF a.v < 0 THEN 0 - a.v ELSE a.v)
\* a < t: a comparison with NaN is False
Less(a, t) == (~a.nan) /\ a.v < t

Min(a, b) == IF a < b THEN a ELSE b
Max(a, b) == IF a > b THEN a ELSE b

(***************************************************************************)
(* Paths: a sequence of components, absolute or relative to the working    *)
(* directory.                                                              *)
(***************************************************************************)
AbsPath(parts) == [abs |-> TRUE, parts |-> parts]
RelPath(parts) == [abs |-> FALSE, parts |-> parts]

RECURSIVE Normalize(_, _)
\* os.path.normpath of an absolute path: "." is dropped, ".." drops the
\* component before it.
Normalize(done, rest) ==
    IF rest = <<>> THEN done
    ELSE IF Head(rest) = "." THEN Normalize(done, Tail(rest))
    ELSE IF Head(rest) = ".."
         THEN Normalize(IF done = <<>> THEN <<>>
                        ELSE SubSeq(done, 1, Len(done) - 1), Tail(rest))
    ELSE Normalize(Append(done, Head(rest)), Tail(rest))

\* The directory or file a path denotes when the working directory is dir.
Resolve(dir, p) ==
    IF p.abs THEN Normalize(<<>>, p.parts) ELSE Normalize(<<>>, dir \o p.parts)

\* The directory the kernel starts in: the notebook's own, examples/.
RepoRoot == <<"deepfwi">>
ExamplesDir == RepoRoot \o <<"examples">>


(***************************************************************************)
(* What each notebook configures.                                          *)
(***************************************************************************)
\* get_hparams(in_days=..., out_days=...)
InDays(nb) == IF nb = "inference_2_1" THEN 2 ELSE 4
OutDays(nb) == IF nb = "inference_2_1" THEN 1 ELSE 10

\* range(a, b) with b included.
RangeInclusive(a, b) == [i \in 1..Max(0, b - a + 1) |-> a + i - 1]

\* Python's range(a, b), as a sequence.
Range(a, b) == [i \in 1..Max(0, b - a) |-> a + i - 1]

\* The days x of "for x in range(1, 3)" and "for x in range(1, 14)".
FileDays(nb) == IF nb = "inference_2_1" THEN Range(1, 3) ELSE Range(1, 14)

\* The directory written into the names of test_out_files.
TestFilesDir(nb) ==
    IF nb = "inference_2_1"
    THEN RelPath(<<".", "deepfwi-mini-sample", "fwi-reanalysis">>)
    ELSE AbsPath(<<"nvme0", "fwi-reanalysis">>)

\* test_out_files: one file of the output variable per day.
TestOutFiles(nb) ==
    [i \in 1..Len(FileDays(nb)) |->
        [dir |-> TestFilesDir(nb), day |-> FileDays(nb)[i]]]

ForcingsDir(nb) ==
    IF nb = "inference_2_1"
    THEN RelPath(<<".", "deepfwi-mini-sample", "fwi-forcings">>)
    ELSE AbsPath(<<"nvme1", "fwi-forcings">>)

ReanalysisDir(nb) ==
    IF nb = "inference_2_1"
    THEN RelPath(<<".", "deepfwi-mini-sample", "fwi-reanalysis">>)
    ELSE AbsPath(<<"nvme0", "fwi-reanalysis">>)

\* checkpoint_file of the first model.
CheckpointFile(nb) ==
    IF nb = "inference_2_1"
    THEN RelPath(<<"..", "src", "model", "checkpoints", "pre_trained", "2_1",
                   "epoch_41_100.ckpt">>)
    ELSE AbsPath(<<"w", "deepfwi", "src", "model", "checkpoints", "pre_trained",
                   "5", "4_10", "epoch_75_82.ckpt">>)

\* checkpoint_file of the model trained with the Box-Cox transformation.
BoxCoxCheckpointFile(nb) ==
    IF nb = "inference_2_1"
    THEN RelPath(<<"..", "src", "model", "checkpoints", "pre_trained", "7",
                   "2_1", "epoch_41_100.ckpt">>)
    ELSE AbsPath(<<"w", "deepfwi", "src", "model", "checkpoints", "pre_trained",
                   "7", "4_10", "epoch_99_100.ckpt">>)

\* The download cell is a code cell of the 4_10 notebook and a markdown cell
\* of the 2_1 notebook, which a run does not execute.
DownloadIsCode(nb) == nb = "inference_4_10"

\* The span of days the notebook's introduction asks of the sample data.
StatedMinDays(nb) == IF nb = "inference_2_1" THEN 2 ELSE 13

\* The day of the month of forecast day i: the plot titles' {4+i:02}, which
\* is the last input day for i = 0.
ForecastDay(nb, i) == InDays(nb) + i

\* The day of the month of input day i: the labels' {i+1:02}.
InputDay(i) == i + 1

(***************************************************************************)
(* The grid cells the model tracks.                                        *)
(***************************************************************************)
ProbeRows == {r \in {RowLo - 1, RowLo, RowHi - 1, GridRows - 1} : 0 <= r /\ r < GridRows}
ProbeCols == {c \in {ColLo - 1, ColLo, ColHi - 1, GridCols - 1} : 0 <= c /\ c < GridCols}
Cells == ProbeRows \X ProbeCols

(***************************************************************************)
(* The contents of the files: dataset ds of 1..MaxDatasets.                *)
(***************************************************************************)
FwiPalette == <<NaN, Num(0), Num(100), Num(194), Num(250)>>

\* The FWI reanalysis of forecast day d at cell (r, c); NaN over the sea.
Fwi(ds, d, r, c) == FwiPalette[((ds * r + c + d + (c \div 100)) % Len(FwiPalette)) + 1]

\* Channel ch of the forcings at cell (r, c).
Forcing(ds, ch, r, c) == Num(6 * ((ds + ch + r + (c \div 100)) % 2))

\* model.data.mask at cell (r, c): the fire-prone cells.
MaskField(m, r, c) ==
    CASE m = 1 -> TRUE
      [] m = 3 -> FALSE
      [] OTHER -> (r + (c \div 100) + m) % 2 = 0

(***************************************************************************)
(* Tensors: functions from <<d, r, c>> (days or channels first) or from    *)
(* <<r, c>> to values.  The batch dimension of size 1 that unsqueeze(0)    *)
(* adds and [0] removes is left out.                                       *)
(***************************************************************************)
Keys3(n) == {<<d, p[1], p[2]>> : d \in 0..(n - 1), p \in Cells}

\* t[i] of a tensor with days first
Select0(t, i) == [p \in {<<k[2], k[3]>> : k \in {q \in DOMAIN t : q[1] = i}} |-> t[<<i, p[1], p[2]>>]]

\* The days of a tensor with days first
DaysOf(t) == {k[1] : k \in DOMAIN t}

\* a - b, cell by cell
TSub(a, b) == [k \in DOMAIN a |-> Sub(a[k], b[k])]

\* t.abs()
TAbs(t) == [k \in DOMAIN t |-> Abs(t[k])]

\* t <= thr in place of t < thr
TLessOrEqual(t, thr) == [k \in DOMAIN t |-> (~IsNaN(t[k])) /\ t[k].v <= thr]

\* t < thr: a Boolean tensor
TLess(t, thr) == [k \in DOMAIN t |-> Less(t[k], thr)]

\* b.float() of a Boolean tensor
TFloat(b) == [k \in DOMAIN b |-> IF b[k] THEN Num(1) ELSE Num(0)]

\* torch.isnan(t)
TIsNaN(t) == [k \in DOMAIN t |-> IsNaN(t[k])]

\* m.expand_as(t) of a 2-d mask m and a tensor t with days first
ExpandAs3(m, t) == [k \in DOMAIN t |-> m[<<k[2], k[3]>>]]

\* t[b]: the values of t where the Boolean tensor b is True
Index(t, b) == [k \in {q \in DOMAIN t : b[q]} |-> t[k]]

\* t[r0:r1, c0:c1] of a 2-d tensor: the cell (r, c) of the result is the cell
\* (r0 + r, c0 + c) of t; a slice is cut to the tensor's size.
Slice2(t, r0, r1, c0, c1) ==
    [p \in {<<k[1] - r0, k[2] - c0>> :
              k \in {q \in DOMAIN t : r0 <= q[1] /\ q[1] < r1 /\ c0 <= q[2] /\ q[2] < c1}}
       |-> t[<<p[1] + r0, p[2] + c0>>]]

\* t[:, r0:r1, c0:c1] of a tensor with days first
Slice3(t, r0, r1, c0, c1) ==
    [p \in {<<k[1], k[2] - r0, k[3] - c0>> :
              k \in {q \in DOMAIN t : r0 <= q[2] /\ q[2] < r1 /\ c0 <= q[3] /\ q[3] < c1}}
       |-> t[<<p[1], p[2] + r0, p[3] + c0>>]]

\* len(range(n)[lo:hi]): the size of a slice lo:hi of a dimension of size n
SliceLen(n, lo, hi) == Max(0, Min(hi, n) - Min(lo, n))

RECURSIVE SumOver(_, _)
\* The sum of the numbers t[k], k in keys
SumOver(t, keys) ==
    IF keys = {} THEN 0
    ELSE LET k == CHOOSE q \in keys : TRUE
         IN  t[k].v + SumOver(t, keys \ {k})

\* t.mean(): a fraction num/den, NaN when t is empty or holds a NaN
Mean(t) ==
    IF DOMAIN t = {} \/ (\E k \in DOMAIN t : IsNaN(t[k]))
    THEN [nan |-> TRUE, num |-> 0, den |-> 1]
    ELSE [nan |-> FALSE, num |-> SumOver(t, DOMAIN t), den |-> Cardinality(DOMAIN t)]

\* q * n of a fraction
Times(q, n) == IF q.nan THEN q ELSE [q EXCEPT !.num = q.num * n]

\* round(num/den), ties to the even integer, of a fraction that is >= 0
RoundHalfEven(num, den) ==
    LET f == num \div den
        r == num % den
    IN  IF 2 * r < den THEN f
        ELSE IF 2 * r > den THEN f + 1
        ELSE IF f % 2 = 0 THEN f ELSE f + 1

\* f"{q:.2f}" of a fraction q >= 0: the number shown, in hundredths
Format2(q) == IF q.nan THEN NaN ELSE Num(RoundHalfEven(q.num * 100, q.den))

\* f"{q:.3f}" of a fraction q >= 0 of tenths: the number shown, in thousandths
Format3(q) == IF q.nan THEN NaN ELSE Num(RoundHalfEven(q.num * 100, q.den))

(***************************************************************************)
(* The collaborators the notebooks import: get_hparams and get_model of    *)
(* train.py, the network's forward pass, scipy's inv_boxcox.               *)
(***************************************************************************)
\* The options the cell "Adjusting the knobs" passes to get_hparams.
Knobs(nb) ==
    [init_features  |-> 16,
     in_days        |-> InDays(nb),
     out_days       |-> OutDays(nb),
     loss           |-> "mse",
     batch_size     |-> 1,
     gpus           |-> 1,
     case_study     |-> FALSE,
     clip_fwi       |-> FALSE,
     test_set       |-> "test_set_path",
     model          |-> "unet_tapered",
     out            |-> "fwi_reanalysis",
     forcings_dir   |-> ForcingsDir(nb),
     reanalysis_dir |-> ReanalysisDir(nb),
     mask           |-> IF nb = "inference_2_1" THEN RelPath(<<>>)
                        ELSE RelPath(<<"dataloader", "mask.npy">>),
     checkpoint_file |-> CheckpointFile(nb)]

\* The options of get_hparams that the notebooks do not pass: eval is off,
\* boxcox is False (written 0).
HparamDefaults == [boxcox |-> 0, eval |-> FALSE]

\* get_hparams(**kw): the options given, and the defaults of those not given.
get_hparams(kw) ==
    [f \in DOMAIN kw \cup DOMAIN HparamDefaults |->
        IF f \in DOMAIN kw THEN kw[f] ELSE HparamDefaults[f]]

\* get_model(hparams): a new network in training mode, its weights drawn from
\* torch's generator, holding the hparams it was built with and the data set
\* of the files that hparams and the pickled list name, as the working
\* directory dir resolves them.
get_model(h, files, dir, id, draw) ==
    [id       |-> id,
     hparams  |-> h,
     weights  |-> draw,
     training |-> TRUE,
     loaded   |-> <<>>,
     data     |-> [forcings   |-> Resolve(dir, h.forcings_dir),
                   reanalysis |-> Resolve(dir, h.reanalysis_dir),
                   files      |-> {Resolve(dir, files[i].dir) : i \in DOMAIN files},
                   in_days    |-> h.in_days,
                   out_days   |-> h.out_days]]

\* model(x): a stand-in for the U-Net, a function of the weights and of the
\* input; in training mode (dropout) also of a draw from torch's generator.
Forward(m, xx, draw) ==
    [k \in Keys3(m.hparams.out_days) |->
        LET ch == k[1] % (NumVars * m.hparams.in_days)
            inp == xx[<<ch, k[2], k[3]>>]
        IN  IF IsNaN(inp) THEN NaN
            ELSE Num(m.weights + inp.v + (IF m.training THEN draw % 3 ELSE 0))]

\* inv_boxcox(v, 0.1182) for v = -8.4, -8.3, ..., 12.0, in tenths.
InvBoxCoxTable ==
    <<
       0, 0, 0, 0, 0, 0, 0, 0, 0, 0, 0, 0, 0, 0, 0,
       0, 0, 0, 0, 0, 0, 0, 0, 0, 0, 0, 0, 0, 0, 0,
       0, 0, 0, 0, 0, 0, 0, 0, 0, 0, 0, 0, 0, 0, 0,
       0, 0, 0, 0, 0, 0, 0, 0, 0, 0, 0, 0, 0, 0, 1,
       1, 1, 1, 1, 1, 1, 1, 1, 2, 2, 2, 2, 3, 3, 3,
       4, 4, 5, 5, 6, 7, 7, 8, 9, 10, 11, 12, 13, 15, 16,
       18, 20, 21, 24, 26, 28, 31, 34, 37, 40, 43, 47, 51, 56, 60,
       65, 71, 76, 83, 89, 97, 104, 112, 121, 130, 140, 151, 162, 174, 187,
       201, 215, 231, 247, 265, 283, 303, 324, 346, 369, 394, 420, 448, 477, 508,
       541, 576, 613, 651, 692, 735, 781, 829, 879, 932, 988, 1047, 1109, 1174, 1243,
       1315, 1391, 1470, 1554, 1641, 1733, 1830, 1931, 2037, 2148, 2265, 2387, 2515, 2649, 2789,
       2936, 3089, 3250, 3417, 3593, 3776, 3967, 4167, 4376, 4594, 4821, 5058, 5306, 5564, 5833,
       6114, 6406, 6711, 7028, 7359, 7703, 8061, 8434, 8822, 9225, 9645, 10082, 10536, 11008, 11498,
       12008, 12537, 13087, 13658, 14251, 14866, 15505, 16168, 16855, 17569
    >>

\* scipy.special.inv_boxcox(v, lam) = (lam * v + 1) ^ (1 / lam), NaN where
\* lam * v + 1 < 0 (tabulated for the lambda the notebooks set).
InvBoxCox(v, lam) ==
    IF IsNaN(v) \/ lam # BoxCoxLambda THEN NaN
    ELSE IF lam * v.v + 100000 < 0 THEN NaN
    ELSE IF v.v + 85 \in DOMAIN InvBoxCoxTable THEN Num(InvBoxCoxTable[v.v + 85])
    ELSE NaN

\* inv_boxcox(t, lam), cell by cell
TInvBoxCox(t, lam) == [k \in DOMAIN t |-> InvBoxCox(t[k], lam)]

\* The sample model.data[0]: the forcings of the input days, variable by
\* variable, and the FWI of the forecast days, read from dataset ds.
SampleX(ds, m) ==
    [k \in Keys3(NumVars * m.data.in_days) |-> Forcing(ds, k[1], k[2], k[3])]

SampleY(ds, m) ==
    [k \in Keys3(m.data.out_days) |-> Fwi(ds, k[1], k[2], k[3])]

\* model.data.mask
DataMask(mk) == [p \in Cells |-> MaskField(mk, p[1], p[2])]

\* len(model.data): the samples that the listed files hold, each spanning
\* in_days + out_days - 1 days.
NumSamples(m, files) == Max(0, Len(files) - (m.data.in_days + m.data.out_days - 1) + 1)

(***************************************************************************)
(* The state.                                                              *)
(***************************************************************************)
VARIABLES
    nb,             \* the notebook that is run
    pc,             \* the statement of Program(nb) that runs next
    cuda,           \* torch.cuda.is_available()
    dataset,        \* which contents the data files have
    maskId,         \* which mask model.data.mask is
    files,          \* the checkpoint files on disk: path |-> weights
    disk,           \* the directories the download has written
    cwd,            \* os.getcwd()
    gen,            \* per run: the states of the four generators
    draws,          \* per run: what has been drawn from the generators
    defined,        \* the names the namespace holds
    test_out_files,
    pickled,        \* the list pickled into the temporary file
    hparams,
    model,          \* per run
    x,
    y,
    y_hat,          \* per run
    y_case,
    y_hat_case,     \* per run
    mask_case,
    i,              \* the loop variables of the cell "Input variables"
    j,
    axes,           \* the imshow calls of the cell "Input variables"
    figs,           \* per run: the figures plotted, with the number in the title
    events,         \* the calls made so far, in order
    trainer         \* per run: the Trainer's progress through the test set

vars == <<nb, pc, cuda, dataset, maskId, files, disk, cwd, gen, draws, defined,
          test_out_files, pickled, hparams, model, x, y, y_hat, y_case,
          y_hat_case, mask_case, i, j, axes, figs, events, trainer>>

\* The cell "Preparing the model" without model.eval().
PrepareModelNoEval == <<"get_model", "load_state_dict">>

\* The cell "Preparing the model" without loading the weights.
PrepareModelNoLoad == <<"get_model", "model_eval">>

\* The statements of the cell "Preparing the model".
PrepareModel == <<"get_model", "load_state_dict", "model_eval">>

\* The statements of the cell "Manual inference".
ManualInference == <<"sample", "forward", "mask">>

\* The cell "Getting the data sample" as a copy of "Manual inference".
BoxCoxSampleNoInverse == <<"sample", "forward", "mask">>

\* The statements of the cell "Getting the data sample".
BoxCoxSample == <<"sample", "forward", "inv_boxcox", "mask">>

\* The statements of a notebook's code cells, top to bottom.
Program(n) ==
    <<"chdir", "seed">>
    \o (IF DownloadIsCode(n) THEN <<"download">> ELSE <<>>)
    \o <<"test_files", "get_hparams", "set_eval">>
    \o PrepareModel
    \o ManualInference
    \o <<"plot_inputs", "ground_truth", "prediction", "error">>
    \o <<"case_slice", "case_truth", "case_prediction", "case_error">>
    \o <<"set_boxcox">>
    \o PrepareModel
    \o BoxCoxSample
    \o <<"prediction", "error">>
    \o <<"trainer", "test">>

\* The statement that runs next.
Stmt == IF pc \in DOMAIN Program(nb) THEN Program(nb)[pc] ELSE "done"

\* Whether the run is past the statement "set_boxcox".
InBoxCoxSection == \E k \in 1..(pc - 1) : k \in DOMAIN Program(nb) /\ Program(nb)[k] = "set_boxcox"

\* The weights a checkpoint file may hold.
PlainWeights == {94, 100}
BoxCoxWeights == {20, 30}

\* Where the checkpoint files are, the notebooks being run from examples/.
CheckpointPath(n) == Resolve(RepoRoot \o <<"src">>, CheckpointFile(n))
BoxCoxCheckpointPath(n) == Resolve(RepoRoot \o <<"src">>, BoxCoxCheckpointFile(n))

NoModel ==
    [id |-> 0, hparams |-> HparamDefaults, weights |-> 0, training |-> TRUE,
     loaded |-> <<>>,
     data |-> [forcings |-> <<>>, reanalysis |-> <<>>, files |-> {},
               in_days |-> 0, out_days |-> 0]]

Event(op, id, file, flag) == [op |-> op, model |-> id, file |-> file, flag |-> flag]

Init ==
    /\ nb \in Notebooks
    /\ pc = 1
    /\ cuda \in BOOLEAN
    /\ dataset \in 1..MaxDatasets
    /\ maskId \in 1..MaxMasks
    /\ \E w \in PlainWeights, b \in BoxCoxWeights :
          files = [f \in {CheckpointPath(nb), BoxCoxCheckpointPath(nb)} |->
                      IF f = CheckpointPath(nb) THEN w ELSE b]
    /\ disk = {}
    /\ cwd = ExamplesDir
    /\ \E e \in [Runs -> 0..MaxEntropy] :
          gen = [r \in Runs |-> [torch |-> e[r], cuda |-> e[r], numpy |-> e[r], random |-> e[r]]]
    /\ draws = [r \in Runs |-> <<>>]
    /\ defined = {}
    /\ test_out_files = <<>>
    /\ pickled = <<>>
    /\ hparams = HparamDefaults
    /\ model = [r \in Runs |-> NoModel]
    /\ x = <<>>
    /\ y = <<>>
    /\ y_hat = [r \in Runs |-> <<>>]
    /\ y_case = <<>>
    /\ y_hat_case = [r \in Runs |-> <<>>]
    /\ mask_case = <<>>
    /\ i = 0
    /\ j = 0
    /\ axes = <<>>
    /\ figs = [r \in Runs |-> <<>>]
    /\ events = <<>>
    /\ trainer = [r \in Runs |-> [model |-> 0, seen |-> <<>>, results |-> <<>>]]

(***************************************************************************)
(* The generators.                                                         *)
(***************************************************************************)
\* The state that follows state s of a generator.
NextGen(s) == (s * 5 + 1) % GenMod

\* The cell without torch.manual_seed(SEED).
SeededWithoutTorch(g, available) ==
    [torch  |-> g.torch,
     cuda   |-> IF available THEN SEED ELSE g.cuda,
     numpy  |-> SEED,
     random |-> SEED]

\* The cell "Ensuring reproducibility": the generators after it.
Seeded(g, available) ==
    [torch  |-> SEED,
     cuda   |-> IF available THEN SEED ELSE g.cuda,
     numpy  |-> SEED,
     random |-> SEED]

\* What a step that consumes randomness reads from the generators; it reads
\* CUDA's only when CUDA is available.
Drawn(g, step) ==
    [step |-> step, torch |-> g.torch, cuda |-> IF cuda THEN g.cuda ELSE 0,
     numpy |-> g.numpy, random |-> g.random]

\* The generators after such a step.
Advance(g) ==
    [torch  |-> NextGen(g.torch),
     cuda   |-> IF cuda THEN NextGen(g.cuda) ELSE g.cuda,
     numpy  |-> NextGen(g.numpy),
     random |-> NextGen(g.random)]

(***************************************************************************)
(* The cells before the model is built.                                    *)
(***************************************************************************)
\* os.chdir('../src')
ChangeDir ==
    /\ Stmt = "chdir"
    /\ cwd' = Resolve(cwd, RelPath(<<"..", "src">>))
    /\ pc' = pc + 1
    /\ UNCHANGED <<nb, cuda, dataset, maskId, files, disk, gen, draws, defined,
                   test_out_files, pickled, hparams, model, x, y, y_hat, y_case,
                   y_hat_case, mask_case, i, j, axes, figs, events, trainer>>

\* SEED = 2334; torch.manual_seed(SEED); ...; random.seed(SEED)
EnsureReproducibility ==
    /\ Stmt = "seed"
    /\ gen' = [r \in Runs |-> Seeded(gen[r], cuda)]
    /\ events' = Append(events, Event("seed", 0, <<>>, cuda))
    /\ pc' = pc + 1
    /\ UNCHANGED <<nb, cuda, dataset, maskId, files, disk, cwd, draws, defined,
                   test_out_files, pickled, hparams, model, x, y, y_hat, y_case,
                   y_hat_case, mask_case, i, j, axes, figs, trainer>>

\* The directories that "gsutil cp -r gs://deepfwi-mini-sample ." writes when
\* the working directory is dir.
Downloaded(dir) ==
    {Resolve(dir, RelPath(<<".", "deepfwi-mini-sample", "fwi-forcings">>)),
     Resolve(dir, RelPath(<<".", "deepfwi-mini-sample", "fwi-reanalysis">>))}

\* os.chdir('../examples'); !gsutil cp -r gs://deepfwi-mini-sample .;
\* os.chdir('../src')
DownloadData ==
    /\ Stmt = "download"
    /\ LET there == Resolve(cwd, RelPath(<<"..", "examples">>))
       IN  /\ disk' = disk \cup Downloaded(there)
           /\ cwd' = Resolve(there, RelPath(<<"..", "src">>))
    /\ pc' = pc + 1
    /\ UNCHANGED <<nb, cuda, dataset, maskId, files, gen, draws, defined,
                   test_out_files, pickled, hparams, model, x, y, y_hat, y_case,
                   y_hat_case, mask_case, i, j, axes, figs, events, trainer>>

\* test_out_files = [...]; pickle.dump(test_out_files, tmp)
CreateTestSet ==
    /\ Stmt = "test_files"
    /\ test_out_files' = TestOutFiles(nb)
    /\ pickled' = TestOutFiles(nb)
    /\ defined' = defined \cup {"test_out_files", "test_set_path"}
    /\ pc' = pc + 1
    /\ UNCHANGED <<nb, cuda, dataset, maskId, files, disk, cwd, gen, draws,
                   hparams, model, x, y, y_hat, y_case, y_hat_case, mask_case,
                   i, j, axes, figs, events, trainer>>

\* hparams = Namespace(**get_hparams(...))
AdjustKnobs ==
    /\ Stmt = "get_hparams"
    /\ "test_set_path" \in defined
    /\ hparams' = get_hparams(Knobs(nb))
    /\ defined' = defined \cup {"hparams"}
    /\ events' = Append(events, Event("get_hparams", 0, <<>>, FALSE))
    /\ pc' = pc + 1
    /\ UNCHANGED <<nb, cuda, dataset, maskId, files, disk, cwd, gen, draws,
                   test_out_files, pickled, model, x, y, y_hat, y_case,
                   y_hat_case, mask_case, i, j, axes, figs, trainer>>

\* hparams.eval = True
SetInferenceFlag ==
    /\ Stmt = "set_eval"
    /\ "hparams" \in defined
    /\ hparams' = [hparams EXCEPT !.eval = TRUE]
    /\ events' = Append(events, Event("set_eval", 0, <<>>, TRUE))
    /\ pc' = pc + 1
    /\ UNCHANGED <<nb, cuda, dataset, maskId, files, disk, cwd, gen, draws,
                   defined, test_out_files, pickled, model, x, y, y_hat, y_case,
                   y_hat_case, mask_case, i, j, axes, figs, trainer>>

\* hparams.boxcox = 0.1182; hparams.checkpoint_file = '.../7/...'
SetBoxCox ==
    /\ Stmt = "set_boxcox"
    /\ "hparams" \in defined
    /\ hparams' = [hparams EXCEPT !.boxcox = BoxCoxLambda,
                                  !.checkpoint_file = BoxCoxCheckpointFile(nb)]
    /\ events' = Append(events, Event("set_boxcox", 0, <<>>, FALSE))
    /\ pc' = pc + 1
    /\ UNCHANGED <<nb, cuda, dataset, maskId, files, disk, cwd, gen, draws,
                   defined, test_out_files, pickled, model, x, y, y_hat, y_case,
                   y_hat_case, mask_case, i, j, axes, figs, trainer>>

(***************************************************************************)
(* The cell "Preparing the model".                                         *)
(***************************************************************************)
\* model = get_model(hparams)
GetModel ==
    /\ Stmt = "get_model"
    /\ "hparams" \in defined
    /\ model' = [r \in Runs |->
                    get_model(hparams, pickled, cwd, model[r].id + 1, gen[r].torch)]
    /\ draws' = [r \in Runs |-> Append(draws[r], Drawn(gen[r], "get_model"))]
    /\ gen' = [r \in Runs |-> Advance(gen[r])]
    /\ defined' = defined \cup {"model"}
    /\ events' = Append(events,
                        Event("get_model", model[1].id + 1,
                              Resolve(cwd, hparams.checkpoint_file), hparams.eval))
    /\ pc' = pc + 1
    /\ UNCHANGED <<nb, cuda, dataset, maskId, files, disk, cwd, test_out_files,
                   pickled, hparams, x, y, y_hat, y_case, y_hat_case, mask_case,
                   i, j, axes, figs, trainer>>

\* The file that torch.load(hparams.checkpoint_file) reads.
CheckpointRead == Resolve(cwd, hparams.checkpoint_file)

\* model.load_state_dict(torch.load(hparams.checkpoint_file)["state_dict"])
LoadStateDict ==
    /\ Stmt = "load_state_dict"
    /\ "model" \in defined
    /\ CheckpointRead \in DOMAIN files
    /\ model' = [r \in Runs |->
                    [model[r] EXCEPT !.weights = files[CheckpointRead],
                                     !.loaded = CheckpointRead]]
    /\ events' = Append(events, Event("load_state_dict", model[1].id, CheckpointRead, FALSE))
    /\ pc' = pc + 1
    /\ UNCHANGED <<nb, cuda, dataset, maskId, files, disk, cwd, gen, draws,
                   defined, test_out_files, pickled, hparams, x, y, y_hat, y_case,
                   y_hat_case, mask_case, i, j, axes, figs, trainer>>

\* model.eval()
ModelEval ==
    /\ Stmt = "model_eval"
    /\ "model" \in defined
    /\ model' = [r \in Runs |-> [model[r] EXCEPT !.training = FALSE]]
    /\ events' = Append(events, Event("model_eval", model[1].id, <<>>, FALSE))
    /\ pc' = pc + 1
    /\ UNCHANGED <<nb, cuda, dataset, maskId, files, disk, cwd, gen, draws,
                   defined, test_out_files, pickled, hparams, x, y, y_hat, y_case,
                   y_hat_case, mask_case, i, j, axes, figs, trainer>>

(***************************************************************************)
(* The cells "Manual inference" and "Getting the data sample".             *)
(***************************************************************************)
\* x = model.data[0][0].unsqueeze(0); y = model.data[0][1].unsqueeze(0)
GetSample ==
    /\ Stmt = "sample"
    /\ "model" \in defined
    /\ NumSamples(model[1], pickled) > 0
    /\ x' = SampleX(dataset, model[1])
    /\ y' = SampleY(dataset, model[1])
    /\ draws' = [r \in Runs |-> Append(draws[r], Drawn(gen[r], "data"))]
    /\ gen' = [r \in Runs |-> Advance(gen[r])]
    /\ defined' = defined \cup {"x", "y"}
    /\ events' = Append(events, Event("data", model[1].id, <<>>, FALSE))
    /\ pc' = pc + 1
    /\ UNCHANGED <<nb, cuda, dataset, maskId, files, disk, cwd, test_out_files,
                   pickled, hparams, model, y_hat, y_case, y_hat_case, mask_case,
                   i, j, axes, figs, trainer>>

\* y_hat = model(x).detach()
ForwardPass ==
    /\ Stmt = "forward"
    /\ {"model", "x"} \subseteq defined
    /\ y_hat' = [r \in Runs |-> Forward(model[r], x, gen[r].torch)]
    /\ draws' = [r \in Runs |->
                    IF model[r].training
                    THEN Append(draws[r], Drawn(gen[r], "forward")) ELSE draws[r]]
    /\ gen' = [r \in Runs |-> IF model[r].training THEN Advance(gen[r]) ELSE gen[r]]
    /\ defined' = defined \cup {"y_hat"}
    /\ events' = Append(events, Event("forward", model[1].id, <<>>, model[1].training))
    /\ pc' = pc + 1
    /\ UNCHANGED <<nb, cuda, dataset, maskId, files, disk, cwd, test_out_files,
                   pickled, hparams, model, x, y, y_case, y_hat_case, mask_case,
                   i, j, axes, figs, trainer>>

\* y_hat = torch.from_numpy(inv_boxcox(y_hat.cpu().numpy(), model.hparams.boxcox))
InverseBoxCox ==
    /\ Stmt = "inv_boxcox"
    /\ {"model", "y_hat"} \subseteq defined
    /\ y_hat' = [r \in Runs |-> TInvBoxCox(y_hat[r], model[r].hparams.boxcox)]
    /\ events' = Append(events, Event("inv_boxcox", model[1].id, <<>>, FALSE))
    /\ pc' = pc + 1
    /\ UNCHANGED <<nb, cuda, dataset, maskId, files, disk, cwd, gen, draws,
                   defined, test_out_files, pickled, hparams, model, x, y, y_case,
                   y_hat_case, mask_case, i, j, axes, figs, trainer>>

\* The assignment with the mask taken from the tensor itself: t[isnan(t)] = v.
MaskedFillOwnNaN(t, b, v) == [k \in DOMAIN t |-> IF IsNaN(t[k]) THEN v ELSE t[k]]

\* t[b] = v: t with v where the Boolean tensor b is True
MaskedFill(t, b, v) == [k \in DOMAIN t |-> IF b[k] THEN v ELSE t[k]]

\* y_hat[torch.isnan(y)] = torch.tensor(float('nan'))
MaskPrediction ==
    /\ Stmt = "mask"
    /\ {"y", "y_hat"} \subseteq defined
    /\ y_hat' = [r \in Runs |-> MaskedFill(y_hat[r], TIsNaN(y), NaN)]
    /\ events' = Append(events, Event("mask", model[1].id, <<>>, FALSE))
    /\ pc' = pc + 1
    /\ UNCHANGED <<nb, cuda, dataset, maskId, files, disk, cwd, gen, draws,
                   defined, test_out_files, pickled, hparams, model, x, y, y_case,
                   y_hat_case, mask_case, i, j, axes, figs, trainer>>

(***************************************************************************)
(* The cell "Input variables".                                             *)
(***************************************************************************)
\* The chain with "if j==2" in place of "elif j==2": j = 1 then also takes
\* the else branch.
ImshowCallsTwoIfs(ii, jj) ==
    (IF jj = 1 THEN <<[channel |-> 4 * ii + jj, cmap |-> "gist_ncar"]>> ELSE <<>>)
    \o (IF jj = 2 THEN <<[channel |-> 4 * ii + jj, cmap |-> "flag"]>>
        ELSE <<[channel |-> 4 * ii + jj, cmap |-> "hsv"]>>)

\* The imshow calls of one turn of the loop: the chain if j==1 / elif j==2 /
\* else, each call reading x.squeeze()[4*i+j].
ImshowCalls(ii, jj) ==
    IF jj = 1 THEN <<[channel |-> 4 * ii + jj, cmap |-> "gist_ncar"]>>
    ELSE IF jj = 2 THEN <<[channel |-> 4 * ii + jj, cmap |-> "flag"]>>
    ELSE <<[channel |-> 4 * ii + jj, cmap |-> "hsv"]>>

\* fig.add_subplot(hparams.in_days, 4, 4*i+j+1): the position of the subplot
SubplotPosition(ii, jj) == 4 * ii + jj + 1

\* The channels of x
ChannelsOf(t) == {k[1] : k \in DOMAIN t}

\* One turn of "for i in range(hparams.in_days): for j in range(4):"
PlotInputVariable ==
    /\ Stmt = "plot_inputs"
    /\ {"hparams", "x"} \subseteq defined
    /\ i < hparams.in_days
    /\ \A k \in DOMAIN ImshowCalls(i, j) : ImshowCalls(i, j)[k].channel \in ChannelsOf(x)
    /\ axes' = axes \o [k \in DOMAIN ImshowCalls(i, j) |->
                           [pos     |-> SubplotPosition(i, j),
                            rows    |-> hparams.in_days,
                            cols    |-> NumVars,
                            channel |-> ImshowCalls(i, j)[k].channel,
                            cmap    |-> ImshowCalls(i, j)[k].cmap]]
    /\ j' = IF j + 1 < NumVars THEN j + 1 ELSE 0
    /\ i' = IF j + 1 < NumVars THEN i ELSE i + 1
    /\ UNCHANGED <<nb, pc, cuda, dataset, maskId, files, disk, cwd, gen, draws,
                   defined, test_out_files, pickled, hparams, model, x, y, y_hat,
                   y_case, y_hat_case, mask_case, figs, events, trainer>>

\* The loop is over: plt.show()
ShowInputVariables ==
    /\ Stmt = "plot_inputs"
    /\ "hparams" \in defined
    /\ i >= hparams.in_days
    /\ events' = Append(events, Event("plot_inputs", model[1].id, <<>>, FALSE))
    /\ pc' = pc + 1
    /\ UNCHANGED <<nb, cuda, dataset, maskId, files, disk, cwd, gen, draws,
                   defined, test_out_files, pickled, hparams, model, x, y, y_hat,
                   y_case, y_hat_case, mask_case, i, j, axes, figs, trainer>>

(***************************************************************************)
(* The numbers in the plot titles.                                         *)
(***************************************************************************)
\* ((yy-yh).abs()<9.4)[m.expand_as(yy)].float().mean()*100, shown with :.2f
AccuracyExpanded(yy, yh, m) ==
    Format2(Times(Mean(TFloat(Index(TLess(TAbs(TSub(yy, yh)), Threshold),
                                    ExpandAs3(m, yy)))), 100))

\* ((yy-yh).abs())[m.expand_as(yy)].float().mean(), shown with :.3f
MAEExpanded(yy, yh, m) ==
    Format3(Mean(Index(TAbs(TSub(yy, yh)), ExpandAs3(m, yy))))

\* ((yy-yh).squeeze()[d].abs()<9.4)[m].float().mean()*100, shown with :.2f
\* (squeeze() removes nothing: no dimension of yy[0] has size 1)
AccuracyOfDay(yy, yh, m, d) ==
    Format2(Times(Mean(TFloat(Index(TLess(TAbs(Select0(TSub(yy, yh), d)), Threshold),
                                    m))), 100))

\* ((yy-yh).squeeze()[d].abs())[m].float().mean(), shown with :.3f
MAEOfDay(yy, yh, m, d) ==
    Format3(Mean(Index(TAbs(Select0(TSub(yy, yh), d)), m)))

\* ((yc-yhc).abs()<9.4)[mc.expand_as(yc)].float().mean()*100 of 2-d tensors
AccuracyCase(yc, yhc, mc) ==
    Format2(Times(Mean(TFloat(Index(TLess(TAbs(TSub(yc, yhc)), Threshold), mc))), 100))

\* ((yc-yhc).abs())[mc.expand_as(yc)].float().mean() of 2-d tensors
MAECase(yc, yhc, mc) ==
    Format3(Mean(Index(TAbs(TSub(yc, yhc)), mc)))

Fig(cell, day, metric, shown, id) ==
    [cell |-> cell, day |-> day, metric |-> metric, shown |-> shown, model |-> id]

\* The figures of the cell "Prediction": one per forecast day.
PredictionFigs(r) ==
    IF nb = "inference_2_1"
    THEN <<Fig("prediction", 0, "accuracy",
               AccuracyExpanded(y, y_hat[r], DataMask(maskId)), model[r].id)>>
    ELSE [d \in 1..hparams.out_days |->
             Fig("prediction", d - 1, "accuracy",
                 AccuracyOfDay(y, y_hat[r], DataMask(maskId), d - 1), model[r].id)]

\* The figures of the cell "Prediction error".
ErrorFigs(r) ==
    IF nb = "inference_2_1"
    THEN <<Fig("error", 0, "mae",
               MAEExpanded(y, y_hat[r], DataMask(maskId)), model[r].id)>>
    ELSE [d \in 1..hparams.out_days |->
             Fig("error", d - 1, "mae",
                 MAEOfDay(y, y_hat[r], DataMask(maskId), d - 1), model[r].id)]

\* The figures of the case study's cell "Prediction".
CasePredictionFigs(r) ==
    IF nb = "inference_2_1"
    THEN <<Fig("case_prediction", 0, "accuracy",
               AccuracyCase(y_case, y_hat_case[r], mask_case), model[r].id)>>
    ELSE [d \in 1..hparams.out_days |->
             Fig("case_prediction", d - 1, "accuracy",
                 AccuracyOfDay(y_case, y_hat_case[r], mask_case, d - 1), model[r].id)]

\* The figures of the case study's cell "Prediction error".
CaseErrorFigs(r) ==
    IF nb = "inference_2_1"
    THEN <<Fig("case_error", 0, "mae",
               MAECase(y_case, y_hat_case[r], mask_case), model[r].id)>>
    ELSE [d \in 1..hparams.out_days |->
             Fig("case_error", d - 1, "mae",
                 MAEOfDay(y_case, y_hat_case[r], mask_case, d - 1), model[r].id)]

\* The figures of a cell that plots the ground truth.
TruthFigs(cell, r) ==
    [d \in 1..(IF nb = "inference_2_1" THEN 1 ELSE hparams.out_days) |->
        Fig(cell, d - 1, "none", NaN, model[r].id)]

\* plot(y.squeeze(), 'Observed FWI-reanalysis')
PlotGroundTruth ==
    /\ Stmt = "ground_truth"
    /\ {"hparams", "y"} \subseteq defined
    /\ figs' = [r \in Runs |-> figs[r] \o TruthFigs("ground_truth", r)]
    /\ events' = Append(events, Event("plot_truth", model[1].id, <<>>, FALSE))
    /\ pc' = pc + 1
    /\ UNCHANGED <<nb, cuda, dataset, maskId, files, disk, cwd, gen, draws,
                   defined, test_out_files, pickled, hparams, model, x, y, y_hat,
                   y_case, y_hat_case, mask_case, i, j, axes, trainer>>

\* plot(y_hat.squeeze(), f'Predicted FWI-reanalysis\nAccuracy: {...:.2f}%*')
PlotPrediction ==
    /\ Stmt = "prediction"
    /\ {"hparams", "model", "y", "y_hat"} \subseteq defined
    /\ figs' = [r \in Runs |-> figs[r] \o PredictionFigs(r)]
    /\ events' = Append(events, Event("plot_prediction", model[1].id, <<>>, TRUE))
    /\ pc' = pc + 1
    /\ UNCHANGED <<nb, cuda, dataset, maskId, files, disk, cwd, gen, draws,
                   defined, test_out_files, pickled, hparams, model, x, y, y_hat,
                   y_case, y_hat_case, mask_case, i, j, axes, trainer>>

\* plot((y-y_hat).abs().squeeze(), f"Error in predicted ...\nMAE: {...:.3f}")
PlotError ==
    /\ Stmt = "error"
    /\ {"hparams", "model", "y", "y_hat"} \subseteq defined
    /\ figs' = [r \in Runs |-> figs[r] \o ErrorFigs(r)]
    /\ events' = Append(events, Event("plot_error", model[1].id, <<>>, TRUE))
    /\ pc' = pc + 1
    /\ UNCHANGED <<nb, cuda, dataset, maskId, files, disk, cwd, gen, draws,
                   defined, test_out_files, pickled, hparams, model, x, y, y_hat,
                   y_case, y_hat_case, mask_case, i, j, axes, trainer>>

(***************************************************************************)
(* The case study.                                                         *)
(***************************************************************************)
\* The window one row lower: 356:481.
CaseWindowShifted(t) ==
    IF nb = "inference_2_1"
    THEN Slice2(Select0(t, 0), RowLo + 1, RowHi + 1, ColLo, ColHi)
    ELSE Slice3(t, RowLo + 1, RowHi + 1, ColLo, ColHi)

\* t[0][0][355:480, 400:550] in the 2_1 notebook, t[0][:, 355:480, 400:550]
\* in the 4_10 notebook
CaseWindow(t) ==
    IF nb = "inference_2_1"
    THEN Slice2(Select0(t, 0), RowLo, RowHi, ColLo, ColHi)
    ELSE Slice3(t, RowLo, RowHi, ColLo, ColHi)

\* model.data.mask[355:480, 400:550]
MaskWindow(m) == Slice2(m, RowLo, RowHi, ColLo, ColHi)

\* y_case = ...; y_hat_case = ...; mask_case = ...
CaseStudySlice ==
    /\ Stmt = "case_slice"
    /\ {"model", "y", "y_hat"} \subseteq defined
    /\ y_case' = CaseWindow(y)
    /\ y_hat_case' = [r \in Runs |-> CaseWindow(y_hat[r])]
    /\ mask_case' = MaskWindow(DataMask(maskId))
    /\ defined' = defined \cup {"y_case", "y_hat_case", "mask_case"}
    /\ events' = Append(events, Event("case_slice", model[1].id, <<>>, TRUE))
    /\ pc' = pc + 1
    /\ UNCHANGED <<nb, cuda, dataset, maskId, files, disk, cwd, gen, draws,
                   test_out_files, pickled, hparams, model, x, y, y_hat, i, j,
                   axes, figs, trainer>>

\* plot(y_case.squeeze(), 'Observed FWI-reanalysis in the case-study region')
PlotCaseTruth ==
    /\ Stmt = "case_truth"
    /\ {"hparams", "y_case"} \subseteq defined
    /\ figs' = [r \in Runs |-> figs[r] \o TruthFigs("case_truth", r)]
    /\ events' = Append(events, Event("plot_case_truth", model[1].id, <<>>, FALSE))
    /\ pc' = pc + 1
    /\ UNCHANGED <<nb, cuda, dataset, maskId, files, disk, cwd, gen, draws,
                   defined, test_out_files, pickled, hparams, model, x, y, y_hat,
                   y_case, y_hat_case, mask_case, i, j, axes, trainer>>

\* plot(y_hat_case.squeeze(), f'...\nAccuracy: {...:.2f}%*')
PlotCasePrediction ==
    /\ Stmt = "case_prediction"
    /\ {"hparams", "y_case", "y_hat_case", "mask_case"} \subseteq defined
    /\ figs' = [r \in Runs |-> figs[r] \o CasePredictionFigs(r)]
    /\ events' = Append(events, Event("plot_case_prediction", model[1].id, <<>>, TRUE))
    /\ pc' = pc + 1
    /\ UNCHANGED <<nb, cuda, dataset, maskId, files, disk, cwd, gen, draws,
                   defined, test_out_files, pickled, hparams, model, x, y, y_hat,
                   y_case, y_hat_case, mask_case, i, j, axes, trainer>>

\* plot((y_case-y_hat_case).abs().squeeze(), f"...\nMAE: {...:.3f}")
PlotCaseError ==
    /\ Stmt = "case_error"
    /\ {"hparams", "y_case", "y_hat_case", "mask_case"} \subseteq defined
    /\ figs' = [r \in Runs |-> figs[r] \o CaseErrorFigs(r)]
    /\ events' = Append(events, Event("plot_case_error", model[1].id, <<>>, TRUE))
    /\ pc' = pc + 1
    /\ UNCHANGED <<nb, cuda, dataset, maskId, files, disk, cwd, gen, draws,
                   defined, test_out_files, pickled, hparams, model, x, y, y_hat,
                   y_case, y_hat_case, mask_case, i, j, axes, trainer>>

(***************************************************************************)
(* Bulk inference.                                                         *)
(***************************************************************************)
\* trainer = pl.Trainer(gpus=hparams.gpus)
CreateTrainer ==
    /\ Stmt = "trainer"
    /\ "hparams" \in defined
    /\ trainer' = [r \in Runs |-> [model |-> 0, seen |-> <<>>, results |-> <<>>]]
    /\ defined' = defined \cup {"trainer"}
    /\ pc' = pc + 1
    /\ UNCHANGED <<nb, cuda, dataset, maskId, files, disk, cwd, gen, draws,
                   test_out_files, pickled, hparams, model, x, y, y_hat, y_case,
                   y_hat_case, mask_case, i, j, axes, figs, events>>

\* The model that the cell hands to trainer.test: the name model.
TestedModel(r) == model[r]

\* trainer.test(model): the call
BulkInference ==
    /\ Stmt = "test"
    /\ {"trainer", "model"} \subseteq defined
    /\ trainer[1].model = 0
    /\ trainer' = [r \in Runs |-> [trainer[r] EXCEPT !.model = TestedModel(r).id]]
    /\ draws' = [r \in Runs |-> Append(draws[r], Drawn(gen[r], "test"))]
    /\ gen' = [r \in Runs |-> Advance(gen[r])]
    /\ events' = Append(events,
                        Event("trainer_test", TestedModel(1).id, TestedModel(1).loaded,
                              TestedModel(1).training))
    /\ UNCHANGED <<nb, pc, cuda, dataset, maskId, files, disk, cwd, defined,
                   test_out_files, pickled, hparams, model, x, y, y_hat, y_case,
                   y_hat_case, mask_case, i, j, axes, figs>>

\* The Trainer's test loop: the next sample of the model's test set.
TestStep ==
    /\ Stmt = "test"
    /\ trainer[1].model # 0
    /\ trainer[1].results = <<>>
    /\ Len(trainer[1].seen) < NumSamples(model[1], pickled)
    /\ trainer' = [r \in Runs |->
                      [trainer[r] EXCEPT !.seen = Append(@, Len(trainer[r].seen))]]
    /\ UNCHANGED <<nb, pc, cuda, dataset, maskId, files, disk, cwd, gen, draws,
                   defined, test_out_files, pickled, hparams, model, x, y, y_hat,
                   y_case, y_hat_case, mask_case, i, j, axes, figs, events>>

\* The test loop is over: the result metrics.
TestEnd ==
    /\ Stmt = "test"
    /\ trainer[1].model # 0
    /\ trainer[1].results = <<>>
    /\ Len(trainer[1].seen) >= NumSamples(model[1], pickled)
    /\ trainer' = [r \in Runs |->
                      [trainer[r] EXCEPT !.results =
                          <<[samples |-> Len(trainer[r].seen), weights |-> model[r].weights]>>]]
    /\ events' = Append(events, Event("test_results", trainer[1].model, <<>>, FALSE))
    /\ pc' = pc + 1
    /\ UNCHANGED <<nb, cuda, dataset, maskId, files, disk, cwd, gen, draws,
                   defined, test_out_files, pickled, hparams, model, x, y, y_hat,
                   y_case, y_hat_case, mask_case, i, j, axes, figs>>

(***************************************************************************)
(* A top-to-bottom run.                                                    *)
(***************************************************************************)
Next ==
    \/ ChangeDir
    \/ EnsureReproducibility
    \/ DownloadData
    \/ CreateTestSet
    \/ AdjustKnobs
    \/ SetInferenceFlag
    \/ GetModel
    \/ LoadStateDict
    \/ ModelEval
    \/ GetSample
    \/ ForwardPass
    \/ InverseBoxCox
    \/ MaskPrediction
    \/ PlotInputVariable
    \/ ShowInputVariables
    \/ PlotGroundTruth
    \/ PlotPrediction
    \/ PlotError
    \/ CaseStudySlice
    \/ PlotCaseTruth
    \/ PlotCasePrediction
    \/ PlotCaseError
    \/ SetBoxCox
    \/ CreateTrainer
    \/ BulkInference
    \/ TestStep
    \/ TestEnd

Spec == Init /\ [][Next]_vars

(***************************************************************************)
(* Properties.                                                             *)
(***************************************************************************)
\* The last call of op before call k, 0 when there is none.
LastBefore(k, op) ==
    LET before == {q \in 1..(k - 1) : q \in DOMAIN events /\ events[q].op = op}
    IN  IF before = {} THEN 0 ELSE CHOOSE q \in before : \A q2 \in before : q2 <= q

\* The calls of op so far.
Calls(op) == {k \in DOMAIN events : events[k].op = op}

\* The last call made.
LastOp == IF events = <<>> THEN "none" ELSE events[Len(events)].op

\* The plots and metrics computed from y_hat.
PredictionPlots ==
    {"plot_prediction", "plot_error", "plot_case_prediction", "plot_case_error"}

\* C1: every forward pass model(x) comes after, in this order, get_hparams,
\* hparams.eval = True, get_model(hparams) (which sees the flag set), the
\* load_state_dict of the checkpoint that hparams.checkpoint_file names and
\* model.eval(), all three on the model that makes the pass, which is then in
\* evaluation mode; and every plot or metric of y_hat comes after the forward
\* pass of the model in place when it is made.
C1_ForwardAfterPreparation ==
    /\ \A k \in Calls("forward") :
          LET e == LastBefore(k, "model_eval")
              l == LastBefore(e, "load_state_dict")
              g == LastBefore(l, "get_model")
              s == LastBefore(g, "set_eval")
              h == LastBefore(s, "get_hparams")
          IN  /\ h > 0
              /\ g = LastBefore(k, "get_model")
              /\ events[g].flag
              /\ events[l].file = events[g].file
              /\ events[g].model = events[k].model
              /\ events[l].model = events[k].model
              /\ events[e].model = events[k].model
              /\ ~events[k].flag
    /\ \A p \in DOMAIN events :
          events[p].op \in PredictionPlots =>
             LET f == LastBefore(p, "forward")
             IN  f > 0 /\ events[f].model = events[p].model

\* Both forward passes have been made and their predictions plotted.
C1_Witness ==
    /\ Cardinality(Calls("forward")) = 2
    /\ Cardinality(Calls("plot_prediction")) = 2
    /\ LastOp = "plot_error"

\* C2: the masking step makes y_hat NaN at every cell of every forecast day
\* where y is NaN, leaves y_hat as it was at every other cell, and changes
\* neither y nor x.
C2_MaskingStep ==
    [][(Stmt = "mask" /\ pc' = pc + 1) =>
          /\ y' = y
          /\ x' = x
          /\ \A r \in Runs :
                /\ DOMAIN y_hat'[r] = DOMAIN y
                /\ DOMAIN y = Keys3(hparams.out_days)
                /\ \A k \in DOMAIN y :
                      /\ IsNaN(y[k]) => IsNaN(y_hat'[r][k])
                      /\ ~IsNaN(y[k]) => y_hat'[r][k] = y_hat[r][k]]_vars

\* The masking step has run on a ground truth with NaN cells and other
\* cells, whose predictions it kept.
C2_Witness ==
    /\ LastOp = "mask"
    /\ \E k \in DOMAIN y : IsNaN(y[k]) /\ IsNaN(y_hat[1][k])
    /\ \E k \in DOMAIN y : ~IsNaN(y[k]) /\ ~IsNaN(y_hat[1][k])

\* y_hat of run r is the tensor t, but for the cells the masking step has
\* made NaN.
IsMaskedOr(r, t) ==
    /\ DOMAIN y_hat[r] = DOMAIN t
    /\ \A k \in DOMAIN t :
          \/ y_hat[r][k] = t[k]
          \/ (Calls("mask") # {} /\ IsNaN(y[k]) /\ IsNaN(y_hat[r][k]))

\* C3: inv_boxcox is applied to an output exactly when the model that made
\* it was loaded from the Box-Cox checkpoint, and that model is the one built
\* with hparams.boxcox = 0.1182; it is applied with model.hparams.boxcox,
\* right after the forward pass, before the masking and before any plot; the
\* output of the first model is never transformed.
C3_InverseBoxCox ==
    /\ \A k \in Calls("inv_boxcox") :
          LET l == LastBefore(k, "load_state_dict")
          IN  /\ l > 0
              /\ events[k - 1].op = "forward"
              /\ events[k - 1].model = events[k].model
              /\ events[l].model = events[k].model
              /\ events[l].file = BoxCoxCheckpointPath(nb)
    /\ \A f \in Calls("forward") :
          LET l == LastBefore(f, "load_state_dict")
          IN  /\ l > 0
              /\ f < Len(events) =>
                    (events[f + 1].op = "inv_boxcox"
                        <=> events[l].file = BoxCoxCheckpointPath(nb))
    /\ \A r \in Runs :
          /\ model[r].loaded # <<>> =>
                (model[r].loaded = BoxCoxCheckpointPath(nb)
                    <=> model[r].hparams.boxcox = BoxCoxLambda)
          /\ (Cardinality(Calls("forward")) = 1 /\ Cardinality(Calls("get_model")) = 1) =>
                IsMaskedOr(r, Forward(model[r], x, 0))
          /\ Calls("inv_boxcox") # {} =>
                /\ model[r].loaded = BoxCoxCheckpointPath(nb)
                /\ IsMaskedOr(r, TInvBoxCox(Forward(model[r], x, 0), model[r].hparams.boxcox))

\* The second prediction has been transformed and masked, and the transform
\* changed it.
C3_Witness ==
    /\ LastOp = "mask"
    /\ Calls("inv_boxcox") # {}
    /\ \E k \in DOMAIN y_hat[1] :
          /\ ~IsNaN(y_hat[1][k])
          /\ y_hat[1][k] # Forward(model[1], x, 0)[k]
    /\ \E k \in DOMAIN y_hat[1] : IsNaN(y_hat[1][k])

\* |yy - yh| at cell k
ErrorAt(yy, yh, k) == Abs(Sub(yy[k], yh[k]))

\* The cells of S whose error is a number strictly below the threshold.
AccurateCells(S, yy, yh) ==
    {k \in S : ~IsNaN(ErrorAt(yy, yh, k)) /\ ErrorAt(yy, yh, k).v < Threshold}

RECURSIVE SumOfErrors(_, _, _)
SumOfErrors(S, yy, yh) ==
    IF S = {} THEN 0
    ELSE LET k == CHOOSE q \in S : TRUE
         IN  ErrorAt(yy, yh, k).v + SumOfErrors(S \ {k}, yy, yh)

\* 100 times the fraction of the cells of S that are accurate, as :.2f shows
\* it (in hundredths); NaN when S is empty.
PercentAccurate(S, yy, yh) ==
    IF S = {} THEN NaN
    ELSE Num(RoundHalfEven(100 * 100 * Cardinality(AccurateCells(S, yy, yh)),
                           Cardinality(S)))

\* The mean of the errors of the cells of S, as :.3f shows it (in
\* thousandths); NaN when S is empty or an error is NaN.
MeanError(S, yy, yh) ==
    IF S = {} \/ (\E k \in S : IsNaN(ErrorAt(yy, yh, k))) THEN NaN
    ELSE Num(RoundHalfEven(100 * SumOfErrors(S, yy, yh), Cardinality(S)))

\* The cells of forecast day d that model.data.mask selects.
SelectedCells(d) == {<<d, p[1], p[2]>> : p \in {q \in Cells : MaskField(maskId, q[1], q[2])}}

\* The cells of forecast day d of the case-study tensors that mask_case
\* selects (the 2_1 notebook's case-study tensors have no day dimension).
SelectedCaseCells(d) ==
    {IF nb = "inference_2_1" THEN p ELSE <<d, p[1], p[2]>> :
        p \in {q \in DOMAIN mask_case : mask_case[q]}}

\* The figure of forecast day d among those the last cell plotted.
LastFig(r, d) == figs[r][Len(figs[r]) - hparams.out_days + d + 1]

\* C4: the accuracy in the title of a prediction plot is 100 times the
\* fraction of the selected cells (by model.data.mask, or by mask_case in the
\* case study) whose error |y - y_hat| is strictly below 9.4, as :.2f shows
\* it; the MAE in the title of the error plot is the mean of |y - y_hat| over
\* the same cells, as :.3f shows it; when a cell is selected the accuracy is
\* a number of 0..100.
C4_TitleMetrics ==
    \A r \in Runs :
        /\ LastOp = "plot_prediction" =>
              \A d \in 0..(hparams.out_days - 1) :
                  /\ LastFig(r, d).cell = "prediction" /\ LastFig(r, d).day = d
                  /\ LastFig(r, d).shown = PercentAccurate(SelectedCells(d), y, y_hat[r])
                  /\ SelectedCells(d) # {} =>
                        /\ ~IsNaN(LastFig(r, d).shown)
                        /\ LastFig(r, d).shown.v \in 0..(100 * 100)
        /\ LastOp = "plot_error" =>
              \A d \in 0..(hparams.out_days - 1) :
                  /\ LastFig(r, d).cell = "error" /\ LastFig(r, d).day = d
                  /\ LastFig(r, d).shown = MeanError(SelectedCells(d), y, y_hat[r])
        /\ LastOp = "plot_case_prediction" =>
              \A d \in 0..(hparams.out_days - 1) :
                  /\ LastFig(r, d).cell = "case_prediction" /\ LastFig(r, d).day = d
                  /\ LastFig(r, d).shown =
                        PercentAccurate(SelectedCaseCells(d), y_case, y_hat_case[r])
                  /\ SelectedCaseCells(d) # {} =>
                        /\ ~IsNaN(LastFig(r, d).shown)
                        /\ LastFig(r, d).shown.v \in 0..(100 * 100)
        /\ LastOp = "plot_case_error" =>
              \A d \in 0..(hparams.out_days - 1) :
                  /\ LastFig(r, d).cell = "case_error" /\ LastFig(r, d).day = d
                  /\ LastFig(r, d).shown =
                        MeanError(SelectedCaseCells(d), y_case, y_hat_case[r])

\* A prediction plot whose selected cells hold one with an error of exactly
\* 9.4 and one with a smaller error, and whose accuracy is neither 0 nor 100.
C4_Witness ==
    /\ LastOp = "plot_prediction"
    /\ \E k \in SelectedCells(0) : ErrorAt(y, y_hat[1], k) = Num(Threshold)
    /\ \E k \in SelectedCells(0) : Less(ErrorAt(y, y_hat[1], k), Threshold)
    /\ ~IsNaN(LastFig(1, 0).shown)
    /\ LastFig(1, 0).shown.v > 0
    /\ LastFig(1, 0).shown.v < 100 * 100

\* C5: trainer.test is called with the model that get_model built last,
\* after that model's weights were loaded from the checkpoint and after its
\* model.eval(); the test loop then takes every sample of the test set
\* exactly once before the result metrics are produced.
C5_BulkInference ==
    /\ \A t \in Calls("trainer_test") :
          LET g == LastBefore(t, "get_model")
              l == LastBefore(t, "load_state_dict")
              e == LastBefore(t, "model_eval")
          IN  /\ 0 < g /\ g < l /\ l < e
              /\ events[t].model = events[g].model
              /\ events[l].model = events[g].model
              /\ events[e].model = events[g].model
              /\ events[t].file = events[l].file
              /\ events[l].file = events[g].file
              /\ ~events[t].flag
    /\ \A r \in Runs :
          /\ trainer[r].model # 0 =>
                /\ trainer[r].model = model[r].id
                /\ model[r].id = Cardinality(Calls("get_model"))
          /\ \A a, b \in DOMAIN trainer[r].seen :
                a # b => trainer[r].seen[a] # trainer[r].seen[b]
          /\ trainer[r].results # <<>> =>
                /\ NumSamples(model[r], pickled) >= 1
                /\ \A k \in 0..(NumSamples(model[r], pickled) - 1) :
                      Cardinality({a \in DOMAIN trainer[r].seen : trainer[r].seen[a] = k}) = 1
                /\ Len(trainer[r].seen) = NumSamples(model[r], pickled)
                /\ trainer[r].results[1].weights = files[model[r].loaded]

\* The bulk inference has produced its result metrics.
C5_Witness ==
    /\ trainer[1].results # <<>>
    /\ Len(trainer[1].seen) >= 1
    /\ LastOp = "test_results"

\* The days that the files of test_out_files hold.
FileDaySet == {test_out_files[k].day : k \in DOMAIN test_out_files}

\* C6: test_out_files lists as many consecutive daily files as the
\* notebook's introduction asks for (2, 13), which is in_days + out_days - 1
\* and holds every input day and every forecast day of the sample
\* model.data[0].
C6_SampleSpan ==
    "test_out_files" \in defined =>
        /\ Len(test_out_files) = StatedMinDays(nb)
        /\ \A k \in 1..(Len(test_out_files) - 1) :
              test_out_files[k + 1].day = test_out_files[k].day + 1
        /\ "hparams" \in defined =>
              /\ Len(test_out_files) = hparams.in_days + hparams.out_days - 1
              /\ \A d \in 0..(hparams.in_days - 1) : InputDay(d) \in FileDaySet
              /\ \A d \in 0..(hparams.out_days - 1) : ForecastDay(nb, d) \in FileDaySet

\* The 4_10 notebook has listed its 13 files and built its hyperparameters.
C6_Witness ==
    /\ nb = "inference_4_10"
    /\ "hparams" \in defined
    /\ Len(test_out_files) = 13
    /\ hparams.in_days + hparams.out_days - 1 = 13

\* C7: once the download cell has run, the directories of test_out_files,
\* forcings_dir and reanalysis_dir, as the working directory resolves them
\* when get_model reads them, are directories the download wrote.
C7_DataWhereDownloaded ==
    (disk # {} /\ "model" \in defined) =>
        \A r \in Runs :
            /\ model[r].data.forcings \in disk
            /\ model[r].data.reanalysis \in disk
            /\ model[r].data.files \subseteq disk

\* The cells of the grid inside the case-study window.
WindowCells ==
    {p \in Cells : RowLo <= p[1] /\ p[1] < RowHi /\ ColLo <= p[2] /\ p[2] < ColHi}

\* Where cell p of forecast day d is in a case-study tensor (the 2_1
\* notebook's case-study tensors have no day dimension).
CaseKey(d, p) ==
    IF nb = "inference_2_1" THEN <<p[1] - RowLo, p[2] - ColLo>>
    ELSE <<d, p[1] - RowLo, p[2] - ColLo>>

\* The cells of forecast day d inside the window that model.data.mask selects.
SelectedWindowCells(d) ==
    {<<d, p[1], p[2]>> : p \in {q \in WindowCells : MaskField(maskId, q[1], q[2])}}

CaseOps == {"case_slice", "plot_case_truth", "plot_case_prediction", "plot_case_error"}

\* C8: the case study runs no forward pass: it slices the global y, y_hat
\* and mask with one window, rows 355..479 and columns 400..549 (125 x 150),
\* so that cell (r, c) of a case-study tensor is cell (355 + r, 400 + c) of
\* the global one on every forecast day, and its accuracy and MAE are those
\* of the global tensors over the selected cells of the window.
C8_CaseStudy ==
    /\ \A k \in DOMAIN events :
          events[k].op \in CaseOps =>
              /\ Cardinality({f \in Calls("forward") : f < k}) = 1
              /\ LastBefore(k, "forward") < LastBefore(k, "plot_error")
              /\ events[LastBefore(k, "forward")].model = events[k].model
    /\ ("y_case" \in defined /\ Cardinality(Calls("data")) = 1) =>
          /\ SliceLen(GridRows, RowLo, RowHi) = 125
          /\ SliceLen(GridCols, ColLo, ColHi) = 150
          /\ DOMAIN y_case =
                {CaseKey(d, p) : d \in 0..(hparams.out_days - 1), p \in WindowCells}
          /\ DOMAIN mask_case = {<<p[1] - RowLo, p[2] - ColLo>> : p \in WindowCells}
          /\ \A p \in WindowCells :
                /\ p[1] - RowLo \in 0..124 /\ p[2] - ColLo \in 0..149
                /\ mask_case[<<p[1] - RowLo, p[2] - ColLo>>] = MaskField(maskId, p[1], p[2])
                /\ \A d \in 0..(hparams.out_days - 1) :
                      y_case[CaseKey(d, p)] = y[<<d, p[1], p[2]>>]
          /\ \A r \in Runs :
                /\ DOMAIN y_hat_case[r] = DOMAIN y_case
                /\ \A p \in WindowCells, d \in 0..(hparams.out_days - 1) :
                      y_hat_case[r][CaseKey(d, p)] = y_hat[r][<<d, p[1], p[2]>>]
                /\ LastOp = "plot_case_prediction" =>
                      \A d \in 0..(hparams.out_days - 1) :
                          LastFig(r, d).shown =
                              PercentAccurate(SelectedWindowCells(d), y, y_hat[r])
                /\ LastOp = "plot_case_error" =>
                      \A d \in 0..(hparams.out_days - 1) :
                          LastFig(r, d).shown =
                              MeanError(SelectedWindowCells(d), y, y_hat[r])

\* The case study's error plot is made, of a window with selected cells,
\* in a grid that has cells outside the window that differ from it.
C8_Witness ==
    /\ LastOp = "plot_case_error"
    /\ SelectedWindowCells(0) # {}
    /\ \E p \in Cells \ WindowCells, q \in WindowCells :
          y[<<0, p[1], p[2]>>] # y[<<0, q[1], q[2]>>]
    /\ ~IsNaN(LastFig(1, 0).shown)

\* C9: x has 4 * in_days channels; the plotting loop makes one imshow call
\* per turn, of channel 4*i+j in subplot 4*i+j+1, so that when it ends every
\* channel of 0..4*in_days-1 is drawn exactly once, every subplot position
\* of 1..4*in_days is used exactly once, and nothing else is read.
C9_InputChannels ==
    /\ ({"x", "hparams"} \subseteq defined) =>
          ChannelsOf(x) = 0..(4 * hparams.in_days - 1)
    /\ \A a \in DOMAIN axes :
          /\ axes[a].channel \in 0..(4 * hparams.in_days - 1)
          /\ axes[a].channel \in ChannelsOf(x)
          /\ axes[a].pos \in 1..(4 * hparams.in_days)
          /\ axes[a].pos <= axes[a].rows * axes[a].cols
          /\ axes[a].pos = axes[a].channel + 1
    /\ \A a, b \in DOMAIN axes :
          a # b => (axes[a].channel # axes[b].channel /\ axes[a].pos # axes[b].pos)
    /\ Stmt = "plot_inputs" => Len(axes) = 4 * i + j
    /\ Calls("plot_inputs") # {} =>
          /\ Len(axes) = 4 * hparams.in_days
          /\ {axes[a].channel : a \in DOMAIN axes} = 0..(4 * hparams.in_days - 1)
          /\ {axes[a].pos : a \in DOMAIN axes} = 1..(4 * hparams.in_days)

\* The loop of the 4_10 notebook has drawn its 16 channels.
C9_Witness ==
    /\ nb = "inference_4_10"
    /\ Calls("plot_inputs") # {}
    /\ Len(axes) = 16
    /\ \E a \in DOMAIN axes : axes[a].cmap = "gist_ncar"
    /\ \E a \in DOMAIN axes : axes[a].cmap = "flag"
    /\ \E a \in DOMAIN axes : axes[a].cmap = "hsv"

RECURSIVE SeedStream(_)
\* The n-th state after SEED of a generator.
SeedStream(n) == IF n = 0 THEN SEED ELSE NextGen(SeedStream(n - 1))

\* The steps that can consume randomness.
ConsumingOps == {"get_model", "data", "forward", "trainer_test"}

StageCall ==
    [get_hparams     |-> "get_hparams",
     get_model       |-> "get_model",
     load_state_dict |-> "load_state_dict",
     forward         |-> "forward",
     mask            |-> "mask",
     prediction      |-> "plot_prediction",
     error           |-> "plot_error",
     case_prediction |-> "plot_case_prediction",
     case_error      |-> "plot_case_error",
     set_boxcox      |-> "set_boxcox",
     inv_boxcox      |-> "inv_boxcox",
     test            |-> "trainer_test"]

IsStage(label) == label \in DOMAIN StageCall
IsStageCall(e) == \E l \in DOMAIN StageCall : StageCall[l] = e.op

\* The pipeline stages of notebook n, in the order of its statements.
StagesOf(n) ==
    LET st == SelectSeq(Program(n), IsStage)
    IN  [k \in DOMAIN st |-> StageCall[st[k]]]

\* The pipeline stages that the run has executed, in order.
StagesRun ==
    LET st == SelectSeq(events, IsStageCall)
    IN  [k \in DOMAIN st |-> st[k].op]

\* Whether sequence a is an initial part of sequence b.
IsPrefix(a, b) == Len(a) <= Len(b) /\ a = SubSeq(b, 1, Len(a))

\* The statements that the run has executed, a loop counted once.
StatementsRun == SubSeq(Program(nb), 1, Min(pc - 1, Len(Program(nb))))

\* The pipeline stages a run has executed are, in order, an initial part of
\* the stages of either notebook.
SameStages == \A n \in Notebooks : IsPrefix(StagesRun, StagesOf(n))

\* C11: the two notebooks are interchangeable: what a top-to-bottom run of
\* one has executed so far is what a run of the other executes, stage by
\* stage and statement by statement (a plot repeated per forecast day
\* counted once), the values of the configuration aside.
C11_Interchangeable ==
    /\ SameStages
    /\ \A n \in Notebooks : IsPrefix(StatementsRun, Program(n))

=============================================================================
